---- MODULE Spec2Model ----
(***************************************************************************)
(* The per-tenant watcher lifecycle engine of YandexMusicTGBot             *)
(* (src/main.py, class MultiWatcher): the shared state document and its    *)
(* backing file, the process-wide lock, the command-handling threads that  *)
(* call the engine's operations, and the background task (the closure      *)
(* `loop`) that start() spawns for a tenant.                               *)
(*                                                                         *)
(* Granularity: every `with self._lock:` block is two steps, the           *)
(* acquisition of the lock and the block's body together with the release; *)
(* every network call (remote catalog, chat send_message) and the timed    *)
(* wait is a step of its own, taken with the lock in whatever state the    *)
(* code leaves it.  Computation on a thread's locals is folded into the    *)
(* step that precedes it.                                                  *)
(***************************************************************************)
EXTENDS Integers, Sequences, FiniteSets, TLC

\* ------------------------------------------------------------------ bounds
NumTenants == 2
MaxTasks == 2
NumKeys == 2
MaxClock == 2
MaxRemoved == 2
NumHandlers == 1

\* ------------------------------------------------------- program constants
None == 0
default_poll_seconds == 300
MinInterval == 10
MaxIntervalDays == 7
SecondsPerDay == 86400
ListLimit == 50

Tenants == 1..NumTenants
TaskIds == 1..MaxTasks
Handlers == 1..NumHandlers
TrackKeys == 1..NumKeys
ChatIds == {7}
Tokens == {1}
IntervalInputs == {9, 10, 7 * 86400, 7 * 86400 + 1}

\* A snapshot: a mapping from track identity to display string.
\* track_display of each track of the catalog.
DisplayNames == <<"X", "Y", "Z", "W">>
track_display(k) == DisplayNames[k]
EmptySnap == [k \in {} |-> "X"]
Snapshots == {[k \in S |-> track_display(k)] : S \in SUBSET TrackKeys}

\* Thread identities, as the lock's owner.
Free == <<"free", 0, 0>>
H(h) == <<"handler", h, 0>>
T(u, k) == <<"task", u, k>>

VARIABLES
    state,        \* self.state["users"]: tenant id -> Tenant Record
    file,         \* the document held by STATE_FILE
    lock,         \* self._lock: Free or the thread holding it
    stop_flags,   \* self._stop_flags: tenant id -> the task whose Event it holds
    flag,         \* the threading.Event of each task instance: is it set
    threads,      \* self._threads: tenant id -> the last thread started
    task,         \* each task instance: position in loop() and its locals
    handler,      \* each command-handling thread: position and arguments
    clock,        \* the last value utc_ts() returned
    last_ctl      \* history: per tenant, the last of start (returning success)
                  \* and stop to have run its with-block ("none" before any)

vars == <<state, file, lock, stop_flags, flag, threads, task, handler, clock, last_ctl>>

\* ------------------------------------------------------------ pure helpers

\* _ensure_user's defaults for a tenant that has no record yet.
NewWatch == [is_running |-> FALSE, started_at_ts |-> None,
             removed_count |-> 0, added_count |-> 0]
NewUser == [chat_id |-> None, ym_token |-> None,
            poll_seconds |-> default_poll_seconds,
            watch |-> NewWatch, snapshot |-> EmptySnap]

\* _ensure_user(tg_user_id): the document with the tenant's record created
\* when it was missing.
EnsureUser(doc, u) == IF u \in DOMAIN doc THEN doc ELSE doc @@ (u :> NewUser)

\* Mutant of PollOf: the stored interval is ignored.
PollOfDefault(rec) == default_poll_seconds

\* int(u.get("poll_seconds") or self.default_poll_seconds)
PollOf(rec) == IF rec.poll_seconds = None THEN default_poll_seconds
               ELSE rec.poll_seconds

\* Mutant of IntervalAccepted: the lower check written with <=.
IntervalAcceptedExclusive(seconds) ==
    /\ ~(seconds <= MinInterval)
    /\ ~(seconds > MaxIntervalDays * SecondsPerDay)

\* set_interval's two range checks: TRUE when neither raises.
IntervalAccepted(seconds) ==
    /\ ~(seconds < MinInterval)
    /\ ~(seconds > MaxIntervalDays * SecondsPerDay)

\* fmt_interval(seconds): the number and the unit suffix it prints.
fmt_interval(seconds) ==
    IF seconds < 60 THEN <<seconds, "s">>
    ELSE IF seconds < 3600 /\ seconds % 60 = 0 THEN <<seconds \div 60, "m">>
    ELSE IF seconds < 86400 /\ seconds % 3600 = 0 THEN <<seconds \div 3600, "h">>
    ELSE IF seconds % 86400 = 0 THEN <<seconds \div 86400, "d">>
    ELSE <<seconds, "s">>

\* sorted(S) for a set of track keys.
RECURSIVE Sorted(_)
Sorted(S) ==
    IF S = {} THEN <<>>
    ELSE LET m == CHOOSE x \in S : \A y \in S : x <= y
         IN <<m>> \o Sorted(S \ {m})

\* Mutant of Removed: the difference taken the other way round.
RemovedSwapped(prev, curr) == Sorted(DOMAIN curr \ DOMAIN prev)

\* removed = sorted(prev_ids - curr_ids)
Removed(prev, curr) == Sorted(DOMAIN prev \ DOMAIN curr)

\* The first n elements of a sequence: removed[:50].
Take(seq, n) == SubSeq(seq, 1, IF Len(seq) < n THEN Len(seq) ELSE n)

\* The text of a removal notification: one line per listed key, prev.get(tid, tid),
\* and the count behind "...and N more" (0 when the note is absent).
RemovalLines(prev, removed) ==
    [i \in 1..Len(Take(removed, ListLimit)) |->
        IF removed[i] \in DOMAIN prev THEN prev[removed[i]] ELSE removed[i]]
RemovalMore(removed) ==
    IF Len(removed) > ListLimit THEN Len(removed) - ListLimit ELSE 0

\* What bot.send_message was given: the kind of text, the destination, and
\* for a removal notification its lines and the count of the truncation note.
NoMsg == [kind |-> "none", to |-> None, lines |-> <<>>, more |-> 0]
Msg(kind, to) == [kind |-> kind, to |-> to, lines |-> <<>>, more |-> 0]
RemovalMsg(to, prev, removed) ==
    [kind |-> "removed", to |-> to, lines |-> RemovalLines(prev, removed),
     more |-> RemovalMore(removed)]
\* The confirmation sent after the first snapshot: len(prev) and
\* fmt_interval(poll_seconds_initial).
StartedMsg(to, prev, seconds) ==
    [kind |-> "started", to |-> to,
     lines |-> <<Cardinality(DOMAIN prev)>> \o fmt_interval(seconds), more |-> 0]

\* --------------------------------------------------------- thread records

NoTask == [pc |-> "none", user |-> 0, chat_id |-> None, ym_token |-> None,
           poll_seconds_initial |-> None, prev |-> EmptySnap, curr |-> EmptySnap,
           poll_seconds |-> None, chat_id_local |-> None, msg |-> NoMsg]
DoneTask(u) == [NoTask EXCEPT !.pc = "done", !.user = u]

Idle == [pc |-> "idle", op |-> "-", user |-> 0, arg |-> 0, k |-> 0, res |-> "-"]

\* A task start() has created (its Event registered) and that has not
\* finished loop(), whether or not its thread has been started yet.
Alive(u, k) == task[k].user = u /\ task[k].pc \notin {"none", "done"}
AliveTasks(u) == {k \in TaskIds : Alive(u, k)}

\* A thread spawned by start() that has not yet finished loop().
Live(u, k) == task[k].user = u /\ task[k].pc \notin {"none", "created", "done"}
LiveTasks(u) == {k \in TaskIds : Live(u, k)}
Created == {k \in TaskIds : task[k].pc # "none"}

\* Removals fetched by the tenant's tasks and not yet written to the counter.
RECURSIVE PendingRemovals(_, _)
PendingRemovals(u, K) ==
    IF K = {} THEN 0
    ELSE LET k == CHOOSE x \in K : TRUE
             n == IF task[k].user = u /\ task[k].pc \in {"notify", "persist", "persist_cs"}
                  THEN Len(Removed(task[k].prev, task[k].curr)) ELSE 0
         IN n + PendingRemovals(u, K \ {k})

\* ------------------------------------------------------------------- Init

\* load_state() when STATE_FILE is absent: {}, then setdefault("users", {}).
EmptyDoc == [u \in {} |-> NewUser]

\* MultiWatcher.__init__: the document is what load_state() returns, one of `docs`.
InitWith(docs) ==
    /\ file \in docs
    /\ state = file
    /\ lock = Free
    /\ stop_flags = [u \in Tenants |-> 0]
    /\ flag = [k \in TaskIds |-> FALSE]
    /\ threads = [u \in Tenants |-> 0]
    /\ task = [k \in TaskIds |-> NoTask]
    /\ handler = [h \in Handlers |-> Idle]
    /\ clock = 1
    /\ last_ctl = [u \in Tenants |-> "none"]

Init == InitWith({EmptyDoc})

\* ------------------------------------------------------ command handlers

\* save_state(state): the whole document replaces the backing file
\* (the temporary file is renamed over it in one step).
save_state(doc) == doc

\* utc_ts(): the values a reading of the clock can return.
utc_ts == clock..MaxClock

SetHandler(h, rec) == handler' = [handler EXCEPT ![h] = rec]
Returned(h, res) == [handler[h] EXCEPT !.pc = "ret", !.res = res]

\* start(u) called now would create a task.
WouldSpawn(u) ==
    /\ u \in DOMAIN state
    /\ state[u].chat_id # None
    /\ state[u].ym_token # None
    /\ ~state[u].watch.is_running

\* A handler thread calls an engine operation whose first statement is
\* `with self._lock:` and enters the block.
Enter(h, op, u, a) ==
    /\ handler[h].pc = "idle"
    /\ lock = Free
    /\ (op = "start" /\ WouldSpawn(u)) => Cardinality(Created) < MaxTasks
    /\ lock' = H(h)
    /\ SetHandler(h, [pc |-> "lock", op |-> op, user |-> u, arg |-> a,
                      k |-> 0, res |-> "-"])
    /\ UNCHANGED <<state, file, stop_flags, flag, threads, task, clock, last_ctl>>

InBody(h, op) == handler[h].pc = "lock" /\ handler[h].op = op /\ lock = H(h)

\* set_chat_id: the body of its with-block.
SetChatId(h) ==
    /\ InBody(h, "set_chat_id")
    /\ LET u == handler[h].user
       IN state' = [EnsureUser(state, u) EXCEPT ![u].chat_id = handler[h].arg]
    /\ file' = save_state(state')
    /\ lock' = Free
    /\ SetHandler(h, Returned(h, "ok"))
    /\ UNCHANGED <<stop_flags, flag, threads, task, clock, last_ctl>>

\* set_token: the body of its with-block.
SetToken(h) ==
    /\ InBody(h, "set_token")
    /\ LET u == handler[h].user
       IN state' = [EnsureUser(state, u) EXCEPT ![u].ym_token = handler[h].arg]
    /\ file' = save_state(state')
    /\ lock' = Free
    /\ SetHandler(h, Returned(h, "ok"))
    /\ UNCHANGED <<stop_flags, flag, threads, task, clock, last_ctl>>

\* set_interval with a value one of the range checks refuses: it raises
\* before the lock is requested.
SetIntervalRaise(h, u, seconds) ==
    /\ handler[h].pc = "idle"
    /\ ~IntervalAccepted(seconds)
    /\ SetHandler(h, [pc |-> "ret", op |-> "set_interval", user |-> u,
                      arg |-> seconds, k |-> 0, res |-> "error"])
    /\ UNCHANGED <<state, file, lock, stop_flags, flag, threads, task, clock, last_ctl>>

\* set_interval with an accepted value: it enters the with-block.
SetIntervalEnter(h, u, seconds) ==
    /\ IntervalAccepted(seconds)
    /\ Enter(h, "set_interval", u, seconds)

\* set_interval: the body of its with-block.
SetInterval(h) ==
    /\ InBody(h, "set_interval")
    /\ LET u == handler[h].user
       IN state' = [EnsureUser(state, u) EXCEPT ![u].poll_seconds = handler[h].arg]
    /\ file' = save_state(state')
    /\ lock' = Free
    /\ SetHandler(h, Returned(h, "ok"))
    /\ UNCHANGED <<stop_flags, flag, threads, task, clock, last_ctl>>

\* get_interval: the body of its with-block, called by a handler or as the
\* last statement of start().
GetInterval(h) ==
    /\ \/ InBody(h, "get_interval")
       \/ handler[h].pc = "gi_lock" /\ lock = H(h)
    /\ LET u == handler[h].user
           doc == EnsureUser(state, u)
       IN /\ state' = doc
          /\ SetHandler(h, [Returned(h, IF handler[h].op = "start" THEN "started"
                                        ELSE "ok")
                            EXCEPT !.arg = PollOf(doc[u])])
    /\ lock' = Free
    /\ UNCHANGED <<file, stop_flags, flag, threads, task, clock, last_ctl>>

\* status_text: the body of its with-block.
StatusText(h) ==
    /\ InBody(h, "status_text")
    /\ state' = EnsureUser(state, handler[h].user)
    /\ lock' = Free
    /\ SetHandler(h, Returned(h, "ok"))
    /\ UNCHANGED <<file, stop_flags, flag, threads, task, clock, last_ctl>>

\* stats_text: the body of its with-block.
StatsText(h) ==
    /\ InBody(h, "stats_text")
    /\ state' = EnsureUser(state, handler[h].user)
    /\ lock' = Free
    /\ SetHandler(h, Returned(h, "ok"))
    /\ UNCHANGED <<file, stop_flags, flag, threads, task, clock, last_ctl>>

\* Mutant of StopBody: every registered Event is set, not the tenant's own.
StopBodyAllFlags(u) ==
    /\ state' = [EnsureUser(state, u) EXCEPT ![u].watch.is_running = FALSE]
    /\ file' = save_state(state')
    /\ flag' = [k \in TaskIds |->
                    flag[k] \/ \E v \in Tenants : stop_flags[v] = k]
    /\ last_ctl' = [last_ctl EXCEPT ![u] = "stop"]

\* The body of stop()'s with-block, for whichever thread runs it.
StopBody(u) ==
    /\ state' = [EnsureUser(state, u) EXCEPT ![u].watch.is_running = FALSE]
    /\ file' = save_state(state')
    /\ flag' = IF stop_flags[u] # 0
               THEN [flag EXCEPT ![stop_flags[u]] = TRUE]
               ELSE flag
    /\ last_ctl' = [last_ctl EXCEPT ![u] = "stop"]

\* stop, called by a handler.
Stop(h) ==
    /\ InBody(h, "stop")
    /\ StopBody(handler[h].user)
    /\ lock' = Free
    /\ SetHandler(h, Returned(h, "ok"))
    /\ UNCHANGED <<stop_flags, threads, task, clock>>

\* start: its with-block returns early (no chat_id, no ym_token, or the
\* watch is flagged as running).
StartRefuse(h) ==
    /\ InBody(h, "start")
    /\ LET u == handler[h].user
           doc == EnsureUser(state, u)
       IN /\ state' = doc
          /\ \/ doc[u].chat_id = None
             \/ doc[u].ym_token = None
             \/ doc[u].watch.is_running
          /\ SetHandler(h, Returned(h,
                IF doc[u].chat_id = None \/ doc[u].ym_token = None
                THEN "refused" ELSE "already"))
          /\ last_ctl' = IF doc[u].chat_id = None \/ doc[u].ym_token = None
                         THEN last_ctl
                         ELSE [last_ctl EXCEPT ![u] = "start"]
    /\ lock' = Free
    /\ UNCHANGED <<file, stop_flags, flag, threads, task, clock>>

\* Mutant of StartMark: the check of ym_token left out.
StartMarkNoTokenCheck(h) ==
    /\ InBody(h, "start")
    /\ LET u == handler[h].user
           doc == EnsureUser(state, u)
           k == CHOOSE x \in TaskIds : task[x].pc = "none"
                    /\ \A y \in TaskIds : task[y].pc = "none" => x <= y
       IN /\ doc[u].chat_id # None
          /\ ~doc[u].watch.is_running
          /\ \E now \in utc_ts :
                /\ clock' = now
                /\ state' = [doc EXCEPT ![u].watch =
                                [is_running |-> TRUE, started_at_ts |-> now,
                                 removed_count |-> 0, added_count |-> 0]]
          /\ file' = save_state(state')
          /\ stop_flags' = [stop_flags EXCEPT ![u] = k]
          /\ flag' = [flag EXCEPT ![k] = FALSE]
          /\ task' = [task EXCEPT ![k] =
                        [NoTask EXCEPT !.pc = "created", !.user = u,
                                       !.chat_id = doc[u].chat_id,
                                       !.ym_token = doc[u].ym_token,
                                       !.poll_seconds_initial = PollOf(doc[u])]]
          /\ SetHandler(h, [handler[h] EXCEPT !.pc = "spawn", !.k = k])
          /\ last_ctl' = [last_ctl EXCEPT ![u] = "start"]
    /\ lock' = Free
    /\ UNCHANGED threads

\* Mutant of StartMark: the rest of start() indented into the with-block, so
\* the thread is started and get_interval is called with the lock held.
StartMarkKeepsLock(h) ==
    /\ InBody(h, "start")
    /\ LET u == handler[h].user
           doc == EnsureUser(state, u)
           k == CHOOSE x \in TaskIds : task[x].pc = "none"
                    /\ \A y \in TaskIds : task[y].pc = "none" => x <= y
       IN /\ doc[u].chat_id # None
          /\ doc[u].ym_token # None
          /\ ~doc[u].watch.is_running
          /\ \E now \in utc_ts :
                /\ clock' = now
                /\ state' = [doc EXCEPT ![u].watch =
                                [is_running |-> TRUE, started_at_ts |-> now,
                                 removed_count |-> 0, added_count |-> 0]]
          /\ file' = save_state(state')
          /\ stop_flags' = [stop_flags EXCEPT ![u] = k]
          /\ flag' = [flag EXCEPT ![k] = FALSE]
          /\ task' = [task EXCEPT ![k] =
                        [NoTask EXCEPT !.pc = "created", !.user = u,
                                       !.chat_id = doc[u].chat_id,
                                       !.ym_token = doc[u].ym_token,
                                       !.poll_seconds_initial = PollOf(doc[u])]]
          /\ SetHandler(h, [handler[h] EXCEPT !.pc = "spawn", !.k = k])
          /\ last_ctl' = [last_ctl EXCEPT ![u] = "start"]
    /\ lock' = lock
    /\ UNCHANGED threads

\* start: its with-block marks the watch as running, resets the counters,
\* saves, and registers a new Event; the thread is not started yet.
StartMark(h) ==
    /\ InBody(h, "start")
    /\ LET u == handler[h].user
           doc == EnsureUser(state, u)
           k == CHOOSE x \in TaskIds : task[x].pc = "none"
                    /\ \A y \in TaskIds : task[y].pc = "none" => x <= y
       IN /\ doc[u].chat_id # None
          /\ doc[u].ym_token # None
          /\ ~doc[u].watch.is_running
          /\ \E now \in utc_ts :
                /\ clock' = now
                /\ state' = [doc EXCEPT ![u].watch =
                                [is_running |-> TRUE, started_at_ts |-> now,
                                 removed_count |-> 0, added_count |-> 0]]
          /\ file' = save_state(state')
          /\ stop_flags' = [stop_flags EXCEPT ![u] = k]
          /\ flag' = [flag EXCEPT ![k] = FALSE]
          /\ task' = [task EXCEPT ![k] =
                        [NoTask EXCEPT !.pc = "created", !.user = u,
                                       !.chat_id = doc[u].chat_id,
                                       !.ym_token = doc[u].ym_token,
                                       !.poll_seconds_initial = PollOf(doc[u])]]
          /\ SetHandler(h, [handler[h] EXCEPT !.pc = "spawn", !.k = k])
          /\ last_ctl' = [last_ctl EXCEPT ![u] = "start"]
    /\ lock' = Free
    /\ UNCHANGED threads

\* start: threading.Thread(target=loop).start(), outside the lock.
StartThread(h) ==
    /\ handler[h].pc = "spawn"
    /\ LET u == handler[h].user
           k == handler[h].k
       IN /\ threads' = [threads EXCEPT ![u] = k]
          /\ task' = [task EXCEPT ![k].pc = "auth"]
    /\ SetHandler(h, [handler[h] EXCEPT !.pc = "gi"])
    /\ UNCHANGED <<state, file, lock, stop_flags, flag, clock, last_ctl>>

\* start: the get_interval call in its return statement enters the lock.
StartGetInterval(h) ==
    /\ handler[h].pc = "gi"
    /\ lock = Free
    /\ lock' = H(h)
    /\ SetHandler(h, [handler[h] EXCEPT !.pc = "gi_lock"])
    /\ UNCHANGED <<state, file, stop_flags, flag, threads, task, clock, last_ctl>>

\* The engine call has returned to the handler, which sends its reply.
Reply(h) ==
    /\ handler[h].pc = "ret"
    /\ SetHandler(h, Idle)
    /\ UNCHANGED <<state, file, lock, stop_flags, flag, threads, task, clock, last_ctl>>

\* ------------------------------------------------- the background task

SetTask(u, k, rec) == task' = [task EXCEPT ![k] = rec]
At(u, k, pc) == task[k].user = u /\ task[k].pc = pc
Goto(u, k, pc) == SetTask(u, k, [task[k] EXCEPT !.pc = pc])

\* A step of the task that touches nothing but its own locals.
Local == UNCHANGED <<state, file, lock, stop_flags, flag, threads, handler, clock, last_ctl>>

\* The task requests the lock at position `from` and enters the block.
TaskEnter(u, k, from, to) ==
    /\ At(u, k, from)
    /\ lock = Free
    /\ lock' = T(u, k)
    /\ SetTask(u, k, [task[k] EXCEPT !.pc = to, !.msg = NoMsg])
    /\ UNCHANGED <<state, file, stop_flags, flag, threads, handler, clock, last_ctl>>

\* Client(ym_token).init() returns a client.
TaskAuthOk(u, k) == At(u, k, "auth") /\ Goto(u, k, "owner") /\ Local

\* Client(ym_token).init() raises.
TaskAuthFail(u, k) == At(u, k, "auth") /\ Goto(u, k, "send_init_err") /\ Local

\* Mutant of TaskSendInitErr: loop() returns after the notification without
\* calling self.stop.
TaskSendInitErrNoStop(u, k) ==
    /\ At(u, k, "send_init_err")
    /\ SetTask(u, k, DoneTask(u))
    /\ Local

\* The error notification of the failed initialisation.
TaskSendInitErr(u, k) ==
    /\ At(u, k, "send_init_err")
    /\ SetTask(u, k, [task[k] EXCEPT !.pc = "stop",
                        !.msg = Msg("init_error", task[k].chat_id)])
    /\ Local

\* resolve_owner_uid returns an identifier.
TaskOwnerOk(u, k) == At(u, k, "owner") /\ Goto(u, k, "snap0") /\ Local

\* resolve_owner_uid returns None: RuntimeError.
TaskOwnerFail(u, k) == At(u, k, "owner") /\ Goto(u, k, "send_snap_err") /\ Local

\* The first fetch_snapshot returns.
TaskFirstFetchOk(u, k, snap) ==
    /\ At(u, k, "snap0")
    /\ SetTask(u, k, [task[k] EXCEPT !.pc = "store", !.prev = snap])
    /\ Local

\* The first fetch_snapshot raises.
TaskFirstFetchFail(u, k) == At(u, k, "snap0") /\ Goto(u, k, "send_snap_err") /\ Local

\* The error notification of the failed first snapshot.
TaskSendSnapErr(u, k) ==
    /\ At(u, k, "send_snap_err")
    /\ SetTask(u, k, [task[k] EXCEPT !.pc = "stop",
                        !.msg = Msg("snapshot_error", task[k].chat_id)])
    /\ Local

\* The fatal path calls self.stop(tg_user_id).
TaskStopEnter(u, k) == TaskEnter(u, k, "stop", "stop_cs")

\* The body of that stop(); loop() then returns.
TaskStop(u, k) ==
    /\ At(u, k, "stop_cs") /\ lock = T(u, k)
    /\ StopBody(u)
    /\ lock' = Free
    /\ SetTask(u, k, DoneTask(u))
    /\ UNCHANGED <<stop_flags, threads, handler, clock>>

TaskStoreEnter(u, k) == TaskEnter(u, k, "store", "store_cs")

\* The first snapshot is stored and saved.
TaskStore(u, k) ==
    /\ At(u, k, "store_cs") /\ lock = T(u, k)
    /\ state' = [EnsureUser(state, u) EXCEPT ![u].snapshot = task[k].prev]
    /\ file' = save_state(state')
    /\ lock' = Free
    /\ Goto(u, k, "hello")
    /\ UNCHANGED <<stop_flags, flag, threads, handler, clock, last_ctl>>

\* The confirmation notification.
TaskHello(u, k) ==
    /\ At(u, k, "hello")
    /\ SetTask(u, k, [task[k] EXCEPT !.pc = "while",
                        !.msg = StartedMsg(task[k].chat_id, task[k].prev,
                                           task[k].poll_seconds_initial),
                        !.poll_seconds_initial = None])
    /\ Local

\* while not stop_flag.is_set()
TaskWhile(u, k) ==
    /\ At(u, k, "while")
    /\ SetTask(u, k, [task[k] EXCEPT !.pc = IF flag[k] THEN "exit" ELSE "top",
                                      !.msg = NoMsg, !.curr = EmptySnap])
    /\ Local

TaskTopEnter(u, k) == TaskEnter(u, k, "top", "top_cs")

\* Mutant of TaskTop: the rest of the cycle indented into the with-block, so
\* the lock is still held when the wait is called.
TaskTopKeepsLock(u, k) ==
    /\ At(u, k, "top_cs") /\ lock = T(u, k)
    /\ LET doc == EnsureUser(state, u)
       IN /\ state' = doc
          /\ SetTask(u, k,
                IF ~doc[u].watch.is_running
                THEN [task[k] EXCEPT !.pc = "exit"]
                ELSE [task[k] EXCEPT !.pc = "wait",
                         !.poll_seconds = PollOf(doc[u]),
                         !.chat_id_local = IF doc[u].chat_id = None
                                           THEN task[k].chat_id
                                           ELSE doc[u].chat_id])
    /\ lock' = IF EnsureUser(state, u)[u].watch.is_running THEN lock ELSE Free
    /\ UNCHANGED <<file, stop_flags, flag, threads, handler, clock, last_ctl>>

\* The top of a cycle: leave the loop when is_running is false, else read
\* the interval and the chat destination of this cycle.
TaskTop(u, k) ==
    /\ At(u, k, "top_cs") /\ lock = T(u, k)
    /\ LET doc == EnsureUser(state, u)
       IN /\ state' = doc
          /\ SetTask(u, k,
                IF ~doc[u].watch.is_running
                THEN [task[k] EXCEPT !.pc = "exit"]
                ELSE [task[k] EXCEPT !.pc = "wait",
                         !.poll_seconds = PollOf(doc[u]),
                         !.chat_id_local = IF doc[u].chat_id = None
                                           THEN task[k].chat_id
                                           ELSE doc[u].chat_id])
    /\ lock' = Free
    /\ UNCHANGED <<file, stop_flags, flag, threads, handler, clock, last_ctl>>

\* stop_flag.wait(timeout=poll_seconds) is called.
TaskWaitBegin(u, k) == At(u, k, "wait") /\ Goto(u, k, "waiting") /\ Local

\* The wait returns True: the Event is set.
TaskWaitSignalled(u, k) ==
    /\ At(u, k, "waiting")
    /\ flag[k]
    /\ SetTask(u, k, [task[k] EXCEPT !.pc = "exit", !.poll_seconds = None])
    /\ Local

\* Mutant of TaskWaitTimeout: time.sleep(poll_seconds) in place of the wait
\* on the Event, so the timeout passes whether or not the Event is set.
TaskWaitSleeps(u, k) ==
    /\ At(u, k, "waiting")
    /\ SetTask(u, k, [task[k] EXCEPT !.pc = "fetch", !.poll_seconds = None])
    /\ Local

\* The wait returns False: the timeout passed with the Event not set.
TaskWaitTimeout(u, k) ==
    /\ At(u, k, "waiting")
    /\ ~flag[k]
    /\ SetTask(u, k, [task[k] EXCEPT !.pc = "fetch", !.poll_seconds = None])
    /\ Local

\* Mutant of NoRemovals: the early `continue` left out.
NoRemovalsNever(removed) == FALSE

\* if not removed: continue
NoRemovals(removed) == removed = <<>>

\* fetch_snapshot returns curr; the diff against prev decides where the
\* cycle goes.
TaskFetchOk(u, k, snap) ==
    /\ At(u, k, "fetch")
    /\ LET removed == Removed(task[k].prev, snap)
       IN /\ state[u].watch.removed_count + PendingRemovals(u, TaskIds)
                + Len(removed) <= MaxRemoved
          /\ SetTask(u, k,
                IF NoRemovals(removed)
                THEN [task[k] EXCEPT !.pc = "while", !.curr = snap]
                ELSE [task[k] EXCEPT !.pc = "notify", !.curr = snap])
    /\ Local

\* Mutant of TaskFetchFail: a failed poll handled like a failed first
\* snapshot (notify, stop, return).
TaskFetchFailFatal(u, k) == At(u, k, "fetch") /\ Goto(u, k, "send_snap_err") /\ Local

\* fetch_snapshot raises.
TaskFetchFail(u, k) == At(u, k, "fetch") /\ Goto(u, k, "send_fetch_err") /\ Local

\* The error notification of a failed poll; continue.
TaskSendFetchErr(u, k) ==
    /\ At(u, k, "send_fetch_err")
    /\ SetTask(u, k, [task[k] EXCEPT !.pc = "while",
                        !.msg = Msg("fetch_error", task[k].chat_id_local)])
    /\ Local

\* The removal notification.
TaskNotify(u, k) ==
    /\ At(u, k, "notify")
    /\ SetTask(u, k, [task[k] EXCEPT !.pc = "persist",
                        !.msg = RemovalMsg(task[k].chat_id_local, task[k].prev,
                                    Removed(task[k].prev, task[k].curr))])
    /\ Local

TaskPersistEnter(u, k) == TaskEnter(u, k, "persist", "persist_cs")

\* The counter and the snapshot are written and saved; prev = curr.
TaskPersist(u, k) ==
    /\ At(u, k, "persist_cs") /\ lock = T(u, k)
    /\ LET removed == Removed(task[k].prev, task[k].curr)
       IN state' = [EnsureUser(state, u) EXCEPT
                        ![u].watch.removed_count = @ + Len(removed),
                        ![u].snapshot = task[k].curr]
    /\ file' = save_state(state')
    /\ lock' = Free
    /\ SetTask(u, k, [task[k] EXCEPT !.pc = "while", !.prev = task[k].curr])
    /\ UNCHANGED <<stop_flags, flag, threads, handler, clock, last_ctl>>

TaskExitEnter(u, k) == TaskEnter(u, k, "exit", "exit_cs")

\* After the loop: is_running = False is written and saved; loop() returns.
TaskExit(u, k) ==
    /\ At(u, k, "exit_cs") /\ lock = T(u, k)
    /\ state' = [EnsureUser(state, u) EXCEPT ![u].watch.is_running = FALSE]
    /\ file' = save_state(state')
    /\ lock' = Free
    /\ SetTask(u, k, DoneTask(u))
    /\ UNCHANGED <<stop_flags, flag, threads, handler, clock, last_ctl>>

\* ------------------------------------------------------------------- Next

\* The calls that configure a tenant and control its watch.
ControlCalls(h, u) ==
    \/ \E c \in ChatIds : Enter(h, "set_chat_id", u, c)
    \/ \E tok \in Tokens : Enter(h, "set_token", u, tok)
    \/ Enter(h, "stop", u, 0)
    \/ Enter(h, "start", u, 0)

ControlBodies(h) ==
    \/ SetChatId(h)
    \/ SetToken(h)
    \/ Stop(h)
    \/ StartRefuse(h)
    \/ StartMark(h)
    \/ StartThread(h)
    \/ StartGetInterval(h)
    \/ GetInterval(h)
    \/ Reply(h)

\* The calls that set and read the interval and render the status.
ConfigCalls(h, u) ==
    \/ \E s \in IntervalInputs : SetIntervalRaise(h, u, s)
    \/ \E s \in IntervalInputs : SetIntervalEnter(h, u, s)
    \/ Enter(h, "get_interval", u, 0)
    \/ Enter(h, "status_text", u, 0)
    \/ Enter(h, "stats_text", u, 0)

ConfigBodies(h) ==
    \/ SetInterval(h)
    \/ StatusText(h)
    \/ StatsText(h)

\* The steps of loop(), the catalog returning a snapshot of `snaps`.
TaskStep(u, k, snaps) ==
    \/ TaskAuthOk(u, k)
    \/ TaskAuthFail(u, k)
    \/ TaskSendInitErr(u, k)
    \/ TaskOwnerOk(u, k)
    \/ TaskOwnerFail(u, k)
    \/ \E snap \in snaps : TaskFirstFetchOk(u, k, snap)
    \/ TaskFirstFetchFail(u, k)
    \/ TaskSendSnapErr(u, k)
    \/ TaskStopEnter(u, k)
    \/ TaskStop(u, k)
    \/ TaskStoreEnter(u, k)
    \/ TaskStore(u, k)
    \/ TaskHello(u, k)
    \/ TaskWhile(u, k)
    \/ TaskTopEnter(u, k)
    \/ TaskTop(u, k)
    \/ TaskWaitBegin(u, k)
    \/ TaskWaitSignalled(u, k)
    \/ TaskWaitTimeout(u, k)
    \/ \E snap \in snaps : TaskFetchOk(u, k, snap)
    \/ TaskFetchFail(u, k)
    \/ TaskSendFetchErr(u, k)
    \/ TaskNotify(u, k)
    \/ TaskPersistEnter(u, k)
    \/ TaskPersist(u, k)
    \/ TaskExitEnter(u, k)
    \/ TaskExit(u, k)

\* One tenant's watch started, stopped and restarted while its tasks poll.
Next ==
    \/ \E h \in Handlers : ControlCalls(h, 1) \/ ControlBodies(h)
    \/ \E k \in TaskIds : TaskStep(1, k, Snapshots)

Spec == Init /\ [][Next]_vars

\* The catalog of a tenant who likes at most one track.
OneTrackSnapshots == {[k \in S |-> track_display(k)] : S \in SUBSET {1}}

\* Every engine operation called for one tenant while its tasks poll.
NextConfig ==
    \/ \E h \in Handlers :
          \/ ControlCalls(h, 1) \/ ControlBodies(h)
          \/ ConfigCalls(h, 1) \/ ConfigBodies(h)
    \/ \E k \in TaskIds : TaskStep(1, k, OneTrackSnapshots)

SpecConfig == Init /\ [][NextConfig]_vars

\* load_state() when STATE_FILE holds the document of an earlier process
\* that ended while tenant 1's watch was running.
StaleDoc ==
    [u \in {1} |->
        [NewUser EXCEPT !.chat_id = 7, !.ym_token = 1,
                        !.snapshot = [k \in {1} |-> track_display(k)],
                        !.watch = [is_running |-> TRUE, started_at_ts |-> 1,
                                   removed_count |-> 0, added_count |-> 0]]]

\* The engine constructed over that document.
InitRestart == InitWith({StaleDoc})

SpecRestart == InitRestart /\ [][Next]_vars

\* Both tenants configure, start and stop their watches while their tasks
\* poll.
NextTenants ==
    \/ \E h \in Handlers :
          \/ \E u \in Tenants : ControlCalls(h, u)
          \/ ControlBodies(h)
    \/ \E u \in Tenants, k \in TaskIds : TaskStep(u, k, OneTrackSnapshots)

SpecTenants == Init /\ [][NextTenants]_vars

\* One tenant's watch started, stopped and restarted over a one-track
\* catalog, under fair scheduling: a thread that can take a step, or that
\* again and again finds the lock free, eventually takes its step (network
\* calls return, timed waits end).
NextStop ==
    \/ \E h \in Handlers : ControlCalls(h, 1) \/ ControlBodies(h)
    \/ \E k \in TaskIds : TaskStep(1, k, OneTrackSnapshots)

FairScheduling ==
    /\ \A h \in Handlers : SF_vars(ControlBodies(h))
    /\ \A k \in TaskIds : SF_vars(TaskStep(1, k, OneTrackSnapshots))

SpecStop == Init /\ [][NextStop]_vars /\ FairScheduling

\* Intervals an earlier process can have stored through set_interval
\* (45s, 1h, 61m, 90m, 1d, 25h).
FmtInputs == {45, 3600, 3660, 5400, 86400, 90000}

\* load_state() when STATE_FILE holds a configured tenant whose watch is
\* not running, with a stored interval.
ConfiguredDoc(seconds) ==
    [u \in {1} |->
        [NewUser EXCEPT !.chat_id = 7, !.ym_token = 1,
                        !.poll_seconds = seconds]]

\* The engine constructed over such a document; the confirmation message
\* of a started watch renders the stored interval with fmt_interval.
InitFmt == InitWith({ConfiguredDoc(seconds) : seconds \in FmtInputs})

SpecFmt == InitFmt /\ [][NextStop]_vars

\* ============================================================== claims

\* A step taken by task k (its position or locals change, or it ends).
StepOf(k) == task'[k] # task[k]

\* C1: in every reachable state every tenant has at most one live background
\* task (a thread start() spawned whose loop() has not finished).
C1_AtMostOneLiveTask ==
    \A u \in Tenants : Cardinality(LiveTasks(u)) <= 1

\* C2: whenever the lock is free, a tenant's is_running is true exactly when
\* a task of the tenant exists that has not reached its terminal state.
C2_RunningIffTaskAlive ==
    lock = Free =>
        \A u \in DOMAIN state :
            state[u].watch.is_running <=> AliveTasks(u) # {}

\* C3: once a tenant has been restarted (its newest task is alive and an
\* earlier task of the tenant has not finished yet), no step of the earlier
\* task changes the tenant's watch_status: started_at stays the time of the
\* second start, the counters stay as the new run left them, and the new
\* task is not deactivated.
C3_EarlierTaskLeavesRestartAlone ==
    [][\A u \in Tenants, k \in TaskIds :
          ( /\ Alive(u, k)
            /\ stop_flags[u] # k
            /\ Alive(u, stop_flags[u])
            /\ StepOf(k) )
          => state'[u].watch = state[u].watch]_vars

\* C4: a start() that runs for a configured tenant whose previous control
\* call was a successful start(), with no stop() since, is a no-op returning
\* success, and leaves is_running true and exactly one task of the tenant.
C4_SecondStartIsNoOp ==
    [][\A h \in Handlers :
          ( /\ InBody(h, "start")
            /\ last_ctl[handler[h].user] = "start"
            /\ handler'[h].pc # "lock" )
          => /\ handler'[h].res = "already"
             /\ task' = task
             /\ state'[handler[h].user].watch.is_running
             /\ Cardinality(AliveTasks(handler[h].user)) = 1]_vars

\* ---- C5

\* Where a task is inside a remote-catalog call, a send_message call or
\* the timed wait, and where it is inside a with-block.
TaskOutsidePcs == {"auth", "owner", "snap0", "send_init_err", "send_snap_err",
                   "hello", "waiting", "fetch", "send_fetch_err", "notify"}
TaskBlockPcs == {"stop_cs", "store_cs", "top_cs", "persist_cs", "exit_cs"}

\* The thread that takes a step.
ActsTask(k) == StepOf(k) /\ task[k].pc \notin {"none", "created"}
ActsHandler(h) == handler'[h] # handler[h]

\* A step in which task k copies a Tenant Record field into a local.
TaskReads(k) ==
    \/ task'[k].poll_seconds \notin {None, task[k].poll_seconds}
    \/ task'[k].chat_id_local \notin {None, task[k].chat_id_local}
    \/ task'[k].poll_seconds_initial \notin {None, task[k].poll_seconds_initial}
    \/ task'[k].chat_id \notin {None, task[k].chat_id}
    \/ task'[k].ym_token \notin {None, task[k].ym_token}

\* C5: no thread holds the lock while it is in a remote-catalog call, a
\* send_message call or the timed wait; a thread is inside a with-block
\* exactly when it holds the lock; and every step that writes the document
\* or the file, or copies a record field into a thread's local, is a step of
\* the thread that holds the lock.
C5_LockDiscipline ==
    /\ [](\A k \in TaskIds :
            /\ task[k].pc \in TaskOutsidePcs => lock # T(task[k].user, k)
            /\ task[k].pc \in TaskBlockPcs <=> lock = T(task[k].user, k))
    /\ [](\A h \in Handlers :
            /\ handler[h].pc \in {"ret", "spawn", "gi", "idle"} => lock # H(h)
            /\ handler[h].pc \in {"lock", "gi_lock"} <=> lock = H(h))
    /\ [][(state' # state \/ file' # file \/ \E k \in TaskIds : TaskReads(k))
            => /\ lock # Free
               /\ \A k \in TaskIds :
                    lock = T(task[k].user, k) => ActsTask(k)
               /\ \A h \in Handlers : lock = H(h) => ActsHandler(h)]_vars

\* A task is inside a snapshot fetch while a handler is inside a with-block.
C5_Witness ==
    \E k \in TaskIds, h \in Handlers :
        /\ task[k].pc = "fetch"
        /\ lock = H(h)
        /\ handler[h].op = "set_interval"

\* ---- C6

Gone(P, C) == DOMAIN P \ DOMAIN C

C7_IdenticalSnapshotIsSilent ==
    [][\A u \in Tenants, k \in TaskIds :
          (TaskFetchOk(u, k, task[k].prev))
            => /\ task'[k].pc = "while"
               /\ task'[k].msg = NoMsg
               /\ task[k].msg = NoMsg
               /\ task'[k].prev = task[k].prev
               /\ UNCHANGED <<state, file>>]_vars

\* A cycle has ended with the fetched snapshot equal to the previous one,
\* both holding every track, with nothing sent and nothing counted.
C7_Witness ==
    \E k \in TaskIds :
        /\ task[k].pc = "while"
        /\ task[k].user = 1
        /\ task[k].curr = task[k].prev
        /\ DOMAIN task[k].prev = TrackKeys
        /\ task[k].msg = NoMsg
        /\ state[1].watch.removed_count = 0
        /\ state[1].snapshot = task[k].prev

\* ---- C8

\* C8: set_interval(tenant, v) raises exactly for v < 10 and v > 604800;
\* when it raises, the document and the file are unchanged (no record is
\* created); otherwise the tenant's poll_seconds becomes v and is saved.
C8_SetIntervalBounds ==
    /\ [](\A h \in Handlers :
            (handler[h].pc = "ret" /\ handler[h].op = "set_interval")
                => (handler[h].res = "error"
                        <=> (handler[h].arg < 10 \/ handler[h].arg > 604800)))
    /\ [][\A h \in Handlers :
            ( /\ handler'[h].pc = "ret"
              /\ handler'[h].op = "set_interval"
              /\ handler[h].pc # "ret" )
            => IF handler'[h].res = "error"
               THEN UNCHANGED <<state, file>>
               ELSE /\ state'[handler'[h].user].poll_seconds = handler'[h].arg
                    /\ file' = state']_vars

\* set_interval(1, 604801) has raised for a tenant that has no record.
C8_Witness ==
    \E h \in Handlers :
        /\ handler[h].pc = "ret"
        /\ handler[h].op = "set_interval"
        /\ handler[h].res = "error"
        /\ handler[h].arg = 604801
        /\ handler[h].user \notin DOMAIN state
        /\ handler[h].user \notin DOMAIN file

\* ---- C9

\* C9 as stated: a timed wait that begins uses the interval stored at that
\* moment, that is, the value of every set_interval completed before it.
C9_WaitUsesStoredInterval ==
    [][\A u \in Tenants, k \in TaskIds :
          (At(u, k, "wait") /\ task'[k].pc = "waiting")
            => task'[k].poll_seconds = state[u].poll_seconds]_vars

\* C9 amended: a timed wait uses the interval that was stored when its cycle
\* read it under the lock at the top of the cycle: a set_interval completed
\* before that read is used, one completed after it (before or during the
\* wait) is not used until the next cycle.
C9_WaitUsesIntervalReadAtCycleTop ==
    [][\A u \in Tenants, k \in TaskIds :
          /\ (At(u, k, "top_cs") /\ task'[k].pc = "wait")
                => task'[k].poll_seconds = state[u].poll_seconds
          /\ (task[k].pc \in {"wait", "waiting"}
                /\ task'[k].pc \in {"wait", "waiting"})
                => task'[k].poll_seconds = task[k].poll_seconds]_vars

\* A wait in progress with the timeout 10 a set_interval had stored before
\* its cycle began, while a later set_interval has stored 604800.
C9_Witness ==
    \E k \in TaskIds :
        /\ task[k].pc = "waiting"
        /\ task[k].user = 1
        /\ task[k].poll_seconds = 10
        /\ state[1].poll_seconds = 604800

\* ---- C10

\* C10: whenever the lock is free, the backing file holds the in-memory
\* document.
C10_FileMirrorsDocument ==
    lock = Free => file = state

\* ---- C11

\* C11: start() returns the 'already running' no-op result only when a task
\* of the tenant exists that has not finished; in particular, for an engine
\* constructed over a document whose is_running is true, the first start()
\* of a configured tenant spawns a task.
C11_AlreadyRunningOnlyWithLiveTask ==
    [][\A h \in Handlers :
          (InBody(h, "start") /\ handler'[h].res = "already")
            => AliveTasks(handler[h].user) # {}]_vars

\* ---- C12

\* The tenant on whose behalf a step is taken: the tenant of the engine call
\* a handler thread is making, or the tenant of the task that moves.
ActsFor(u) ==
    \/ \E h \in Handlers :
          /\ ActsHandler(h)
          /\ u = IF handler[h].pc = "idle" THEN handler'[h].user
                 ELSE handler[h].user
    \/ /\ \A h \in Handlers : ~ActsHandler(h)
       /\ \E k \in TaskIds : StepOf(k) /\ task[k].user = u

\* Tenant u has the same record, or none, in both documents.
SameRecord(doc1, doc2, u) ==
    /\ u \in DOMAIN doc1 <=> u \in DOMAIN doc2
    /\ u \in DOMAIN doc1 => doc1[u] = doc2[u]

\* Nothing of tenant B changes: its record in memory, its registered Event
\* and thread, its tasks and their Events; its saved record changes at most
\* to its record in memory.
Untouched(B) ==
    /\ SameRecord(state', state, B)
    /\ SameRecord(file', file, B) \/ SameRecord(file', state, B)
    /\ stop_flags'[B] = stop_flags[B]
    /\ threads'[B] = threads[B]
    /\ \A k \in TaskIds :
          task[k].user = B => task'[k] = task[k] /\ flag'[k] = flag[k]

\* C12: a step taken for tenant A (an engine call, or a step of A's task: a
\* poll cycle, a fatal initialisation error, a failed fetch) leaves every
\* other tenant's record, Event and tasks as they were; and a task that
\* holds the lock is inside a with-block whose next step releases it, so
\* the lock is not kept from other tenants' operations.
C12_TenantIsolation ==
    /\ [][\A A \in Tenants, B \in Tenants :
            (ActsFor(A) /\ A # B) => Untouched(B)]_vars
    /\ [](\A k \in TaskIds :
            lock = T(task[k].user, k) => task[k].pc \in TaskBlockPcs)
    /\ [][\A k \in TaskIds :
            (lock = T(task[k].user, k) /\ StepOf(k)) => lock' = Free]_vars

\* Tenant 1's task has ended on the stop path with its Event set, while
\* tenant 2's watch runs on: its task is in its timed wait, not signalled.
C12_Witness ==
    \E k1 \in TaskIds, k2 \in TaskIds :
        /\ task[k1] = DoneTask(1)
        /\ flag[k1]
        /\ ~state[1].watch.is_running
        /\ task[k2].user = 2
        /\ task[k2].pc = "waiting"
        /\ ~flag[k2]
        /\ state[2].watch.is_running
        /\ lock = Free

\* ---- C13

\* The watch_status of tenant u in a document (the defaults when the tenant
\* has no record yet).
WatchOf(doc, u) == IF u \in DOMAIN doc THEN doc[u].watch ELSE NewWatch

\* The with-block of start() runs for a tenant without chat_id or ym_token.
StartUnconfigured(h) ==
    /\ InBody(h, "start")
    /\ ActsHandler(h)
    /\ LET doc == EnsureUser(state, handler[h].user)
       IN doc[handler[h].user].chat_id = None
            \/ doc[handler[h].user].ym_token = None

\* C13: start() for a tenant whose chat_id or ym_token is missing returns
\* failure, creates no task and no Event, and leaves the tenant's
\* watch_status and the file as they were.
C13_StartRefusedChangesNothing ==
    [][\A h \in Handlers :
          StartUnconfigured(h)
            => /\ handler'[h].pc = "ret"
               /\ handler'[h].res = "refused"
               /\ task' = task
               /\ stop_flags' = stop_flags
               /\ flag' = flag
               /\ threads' = threads
               /\ WatchOf(state', handler[h].user)
                    = WatchOf(state, handler[h].user)
               /\ file' = file]_vars

\* start() has been refused for a tenant with a chat_id and no ym_token.
C13_Witness ==
    \E h \in Handlers :
        /\ handler[h].pc = "ret"
        /\ handler[h].op = "start"
        /\ handler[h].res = "refused"
        /\ handler[h].user \in DOMAIN state
        /\ state[handler[h].user].chat_id # None
        /\ state[handler[h].user].ym_token = None
        /\ ~state[handler[h].user].watch.is_running
        /\ Created = {}

\* ---- C14

\* C14: when a fetch inside the loop fails, the task sends one error
\* notification to the chat destination of the cycle and goes back to the
\* head of the loop; neither step changes the document, the file, the
\* task's previous snapshot or any Event, so last_snapshot, removed_count
\* and is_running stay as they were and the task has not ended.
C14_FetchFailureIsTolerated ==
    /\ [](\A k \in TaskIds : task[k].pc = "send_fetch_err" => task[k].msg = NoMsg)
    /\ [][\A u \in Tenants, k \in TaskIds :
            /\ TaskFetchFail(u, k)
                => /\ task'[k].pc = "send_fetch_err"
                   /\ task'[k].prev = task[k].prev
                   /\ UNCHANGED <<state, file, flag>>
            /\ (At(u, k, "send_fetch_err") /\ StepOf(k))
                => /\ task'[k].pc = "while"
                   /\ task'[k].msg = Msg("fetch_error", task[k].chat_id_local)
                   /\ task'[k].prev = task[k].prev
                   /\ UNCHANGED <<state, file, flag>>]_vars

\* A cycle has ended with the error notification sent: the watch is still
\* running, unsignalled, and the stored snapshot is the task's previous one.
C14_Witness ==
    \E k \in TaskIds :
        /\ task[k].pc = "while"
        /\ task[k].user = 1
        /\ task[k].msg.kind = "fetch_error"
        /\ task[k].msg.to = 7
        /\ ~flag[k]
        /\ state[1].watch.is_running
        /\ state[1].watch.removed_count = 0
        /\ DOMAIN task[k].prev = TrackKeys
        /\ state[1].snapshot = task[k].prev
        /\ file = state

\* ---- C15

\* Where a task is on the path of a failed initialisation.
TaskFatalPcs == {"send_init_err", "send_snap_err", "stop", "stop_cs"}

\* C15: a task whose authentication, owner resolution or first snapshot
\* fails sends an error notification to its chat destination, calls stop(),
\* whose with-block leaves is_running false in the document and the file,
\* and ends; it has stored no snapshot and none of its steps changes the
\* tenant's last_snapshot; it never reaches the loop.
C15_FailedInitEndsThroughStop ==
    /\ [](\A k \in TaskIds :
            task[k].pc \in TaskFatalPcs => task[k].prev = EmptySnap)
    /\ [][\A u \in Tenants, k \in TaskIds :
            /\ TaskAuthFail(u, k) => task'[k].pc = "send_init_err"
            /\ (TaskOwnerFail(u, k) \/ TaskFirstFetchFail(u, k))
                => task'[k].pc = "send_snap_err"
            /\ (At(u, k, "send_init_err") /\ StepOf(k))
                => /\ task'[k].pc = "stop"
                   /\ task'[k].msg = Msg("init_error", task[k].chat_id)
            /\ (At(u, k, "send_snap_err") /\ StepOf(k))
                => /\ task'[k].pc = "stop"
                   /\ task'[k].msg = Msg("snapshot_error", task[k].chat_id)
            /\ (At(u, k, "stop") /\ StepOf(k)) => task'[k].pc = "stop_cs"
            /\ (task[k].user = u /\ task[k].pc \in TaskFatalPcs
                    /\ task[k].pc # "stop_cs" /\ StepOf(k))
                => UNCHANGED <<state, file>>
            /\ (At(u, k, "stop_cs") /\ StepOf(k))
                => /\ task'[k] = DoneTask(u)
                   /\ ~state'[u].watch.is_running
                   /\ file' = state'
                   /\ state'[u].snapshot = state[u].snapshot]_vars

\* The task has failed to initialise and has ended through stop() while the
\* handler that started it is still inside start(): is_running is false in
\* the document and the file.
C15_Witness ==
    \E h \in Handlers, k \in TaskIds :
        /\ handler[h].op = "start"
        /\ handler[h].pc = "gi"
        /\ handler[h].k = k
        /\ task[k] = DoneTask(handler[h].user)
        /\ ~state[handler[h].user].watch.is_running
        /\ ~file[handler[h].user].watch.is_running
        /\ state[handler[h].user].snapshot = EmptySnap
        /\ flag[k]

\* ---- C16

\* stop()'s with-block, run by a handler, leaves is_running false in the
\* document and the file and the tenant's registered Event set.
StopClearsAndSignals ==
    [][\A h \in Handlers :
          (InBody(h, "stop") /\ ActsHandler(h))
            => /\ ~state'[handler[h].user].watch.is_running
               /\ file' = state'
               /\ stop_flags[handler[h].user] # 0
                    => flag'[stop_flags[handler[h].user]]]_vars

\* A task whose Event has been set eventually ends.
SignalledTaskEnds ==
    \A k \in TaskIds :
        (flag[k] /\ Alive(task[k].user, k)) ~> (task[k].pc = "done")

C17_DiffsAgainstLastFetch ==
    [][\A u \in Tenants, k \in TaskIds :
          ( /\ task[k].user = u
            /\ task[k].pc \in {"fetch", "persist_cs"}
            /\ StepOf(k)
            /\ task'[k].pc = "while"
            /\ ~TaskFetchFail(u, k) )
          => task'[k].prev = task'[k].curr]_vars

\* ---- C18

\* The rendering in the largest of days, hours, minutes that divides the
\* value evenly, in seconds when none does.
LargestUnit(seconds) ==
    IF seconds % 86400 = 0 THEN <<seconds \div 86400, "d">>
    ELSE IF seconds % 3600 = 0 THEN <<seconds \div 3600, "h">>
    ELSE IF seconds % 60 = 0 THEN <<seconds \div 60, "m">>
    ELSE <<seconds, "s">>

\* C18: the interval in the confirmation message of a started watch is
\* rendered by fmt_interval in the largest unit that divides it evenly,
\* whatever its magnitude.
C18_FormatsInLargestUnit ==
    [][\A u \in Tenants, k \in TaskIds :
          (At(u, k, "hello") /\ StepOf(k))
            => SubSeq(task'[k].msg.lines, 2, 3)
                 = LargestUnit(task[k].poll_seconds_initial)]_vars

\* ---- C19

\* Task k of tenant u is an earlier instance: it has not finished, and a
\* newer task of the tenant, the one whose Event is registered, is live.
EarlierInstance(u, k) ==
    /\ Alive(u, k)
    /\ stop_flags[u] # k
    /\ stop_flags[u] # 0
    /\ Live(u, stop_flags[u])

\* C19: no step of an earlier task instance sets the newer instance's Event
\* or clears is_running while the newer instance is alive.
C19_EarlierInstanceCancelsNothing ==
    [][\A u \in Tenants, k \in TaskIds :
          (EarlierInstance(u, k) /\ StepOf(k))
            => /\ flag'[stop_flags[u]] = flag[stop_flags[u]]
               /\ state[u].watch.is_running => state'[u].watch.is_running]_vars

\* ---- C20

\* Where a task is about to request the lock.
TaskRequestPcs == {"stop", "store", "top", "persist", "exit"}

\* C20: no thread requests the lock while it holds it (a task at a
\* `with self._lock:` line, a handler calling an engine operation or, in
\* start(), get_interval); and under fair scheduling every task and every
\* start() that requests the lock obtains it, and whoever holds the lock
\* releases it.
C20_DeadlockFree ==
    /\ [](\A k \in TaskIds :
            task[k].pc \in TaskRequestPcs => lock # T(task[k].user, k))
    /\ [](\A h \in Handlers :
            handler[h].pc \in {"idle", "spawn", "gi", "ret"} => lock # H(h))
    /\ \A k \in TaskIds :
            (task[k].pc \in TaskRequestPcs) ~> (lock = T(task[k].user, k))
    /\ \A h \in Handlers : (handler[h].pc = "gi") ~> (lock = H(h))
    /\ (lock # Free) ~> (lock = Free)

\* start() holds the lock inside its get_interval call while the task it
\* started, whose initialisation failed, is requesting the lock for stop().
C20_Witness ==
    \E h \in Handlers, k \in TaskIds :
        /\ handler[h].op = "start"
        /\ handler[h].pc = "gi_lock"
        /\ lock = H(h)
        /\ handler[h].k = k
        /\ task[k].pc = "stop"

====
